---------------------------- MODULE Spec2Model ----------------------------
(***************************************************************************)
(* Model of src/flight_monitor.py: the flight price monitor.               *)
(*                                                                         *)
(* main() validates the configuration, searches every date of the range    *)
(* (search_all_dates / search_flights_amadeus / parse_amadeus_response),   *)
(* formats a report (format_results_message) and delivers it               *)
(* (send_long_message / send_telegram_message).                            *)
(*                                                                         *)
(* Abstractions:                                                           *)
(*  - a calendar date is its day number; the range is date_start..date_end *)
(*  - an offer's total price is an exact number of hundredths (cents)      *)
(*  - a text is the sequence of the lengths of its lines (send path) or a  *)
(*    sequence of one-character strings (duration tokens)                  *)
(*  - a raised Python exception is the value Raise of a function's result  *)
(***************************************************************************)
EXTENDS Integers, Sequences, FiniteSets

VARIABLES
    pc,            \* position of the run
    cfg,           \* Config: the four credential fields
    errors,        \* result of Config.validate()
    date_start,    \* Config.DATE_RANGE_START (day number)
    date_end,      \* Config.DATE_RANGE_END (day number)
    dates,         \* search_all_dates: dates
    i,             \* search_all_dates: enumerate index (1-based)
    response,      \* history: what the provider did for the search call that has just
                   \* returned, until its deals are added
    deals,         \* search_all_dates: deals returned for the current date
    all_deals,     \* search_all_dates: all_deals / main: deals
    inflight,      \* number of search calls that have started and not returned
    trace,         \* history: the search calls, their returns and the delays, in order
    found,         \* history: the argument of format_results_message as passed
    message,       \* main: message (the report's content)
    lines,         \* send_long_message: message.split('\n'), as line lengths
    parts,         \* send_long_message: parts, as chunk lengths
    part_i,        \* send_long_message: index of the next part to send
    sent,          \* history: every send_telegram_message call (length, accepted)
    success,       \* main: success
    duration_str,  \* parse_duration: its argument
    duration       \* parse_duration: its result

vars == << pc, cfg, errors, date_start, date_end, dates, i, response, deals,
           all_deals, inflight, trace, found, message, lines, parts, part_i,
           sent, success, duration_str, duration >>

-----------------------------------------------------------------------------
(* Bounds of the model *)

MaxDay == 2
MaxOffers == 2
MaxLines == 3
MaxDeals == 16
MaxMinority == 3
MaxLen == 6

(* Program constants *)

PASSENGERS == 5
MAX_PRICE == 1000
max_length == 4000
TOP_N == 15

Min(a, b) == IF a <= b THEN a ELSE b

\* Python's int(x / y) for y > 0: truncation toward zero
TruncDiv(a, b) == IF a >= 0 THEN a \div b ELSE -((-a) \div b)

-----------------------------------------------------------------------------
(* Config.validate *)

NONE == "<None>"

CredFields == {"TELEGRAM_BOT_TOKEN", "TELEGRAM_CHAT_ID",
               "AMADEUS_API_KEY", "AMADEUS_API_SECRET"}

Placeholder(f) ==
    CASE f = "TELEGRAM_BOT_TOKEN" -> "your_bot_token_here"
      [] f = "TELEGRAM_CHAT_ID" -> "your_chat_id_here"
      [] f = "AMADEUS_API_KEY" -> "your_amadeus_api_key_here"
      [] f = "AMADEUS_API_SECRET" -> "your_amadeus_api_secret_here"

\* what os.getenv can give for a credential field
CredValues(f) == {NONE, "", Placeholder(f), "secret-value"}

\* `not x`: None and the empty string are falsy
Falsy(x) == x = NONE \/ x = ""

FieldError_NoPlaceholderCheck(c, f) == Falsy(c[f])

FieldError(c, f) == Falsy(c[f]) \/ c[f] = Placeholder(f)

ValidateOrder == << "TELEGRAM_BOT_TOKEN", "TELEGRAM_CHAT_ID",
                    "AMADEUS_API_KEY", "AMADEUS_API_SECRET" >>

RECURSIVE ValidateFrom(_, _)
ValidateFrom(c, n) ==
    IF n > Len(ValidateOrder) THEN << >>
    ELSE (IF FieldError(c, ValidateOrder[n]) THEN << ValidateOrder[n] >> ELSE << >>)
         \o ValidateFrom(c, n + 1)

Validate(c) == ValidateFrom(c, 1)

-----------------------------------------------------------------------------
(* generate_dates_in_range *)

RECURSIVE DatesFrom(_, _)
DatesFrom(current, end) ==
    IF current <= end THEN << current >> \o DatesFrom(current + 1, end) ELSE << >>

GenerateDatesInRange_ExclusiveEnd(start, end) == DatesFrom(start, end - 1)

GenerateDatesInRange(start, end) == DatesFrom(start, end)

-----------------------------------------------------------------------------
(* parse_duration: a text is a sequence of one-character strings *)

Digits == {"0", "1", "2", "3", "4", "5", "6", "7", "8", "9"}

DigitValue(ch) ==
    CASE ch = "0" -> 0 [] ch = "1" -> 1 [] ch = "2" -> 2 [] ch = "3" -> 3
      [] ch = "4" -> 4 [] ch = "5" -> 5 [] ch = "6" -> 6 [] ch = "7" -> 7
      [] ch = "8" -> 8 [] ch = "9" -> 9

\* int(s) succeeds (over the characters modelled) iff s is a non-empty digit string
IntParses(s) == Len(s) > 0 /\ \A n \in 1..Len(s) : s[n] \in Digits

RECURSIVE IntValue(_)
IntValue(s) ==
    IF s = << >> THEN 0
    ELSE 10 * IntValue(SubSeq(s, 1, Len(s) - 1)) + DigitValue(s[Len(s)])

\* s.replace('PT', '')
RECURSIVE RemovePT(_)
RemovePT(s) ==
    IF Len(s) < 2 THEN s
    ELSE IF s[1] = "P" /\ s[2] = "T" THEN RemovePT(SubSeq(s, 3, Len(s)))
    ELSE << s[1] >> \o RemovePT(Tail(s))

\* s.replace('M', '')
RECURSIVE RemoveM(_)
RemoveM(s) ==
    IF s = << >> THEN << >>
    ELSE (IF s[1] = "M" THEN << >> ELSE << s[1] >>) \o RemoveM(Tail(s))

Contains(s, ch) == \E n \in 1..Len(s) : s[n] = ch

FirstIndexOf(s, ch) == CHOOSE n \in 1..Len(s) : s[n] = ch /\ \A m \in 1..(n - 1) : s[m] # ch

\* s.split('H')[0] and s.split('H')[1], for s containing 'H'
SplitH0(s) == SubSeq(s, 1, FirstIndexOf(s, "H") - 1)

SplitH1(s) ==
    LET rest == SubSeq(s, FirstIndexOf(s, "H") + 1, Len(s))
    IN  IF Contains(rest, "H") THEN SubSeq(rest, 1, FirstIndexOf(rest, "H") - 1) ELSE rest

NA == [na |-> TRUE, hours |-> 0, minutes |-> 0]

HM(h, m) == [na |-> FALSE, hours |-> h, minutes |-> m]

\* the result [na |-> FALSE, hours |-> h, minutes |-> m] stands for f"{h}h {m}m",
\* NA for the literal "N/A" of the except branch
ParseDuration(s0) ==
    LET s1 == RemovePT(s0)
        hasH == Contains(s1, "H")
        hoursOk == ~hasH \/ IntParses(SplitH0(s1))
        hours == IF hasH THEN IntValue(SplitH0(s1)) ELSE 0
        s2 == IF hasH THEN SplitH1(s1) ELSE s1
        hasM == Contains(s2, "M")
        minutesOk == ~hasM \/ IntParses(RemoveM(s2))
        minutes == IF hasM THEN IntValue(RemoveM(s2)) ELSE 0
    IN  IF ~hoursOk THEN NA
        ELSE IF ~minutesOk THEN NA
        ELSE HM(hours, minutes)

-----------------------------------------------------------------------------
(* get_airline_name *)

AirlineTable == {"6E", "AI", "SG", "UK", "QP", "IX", "9I", "I5", "G8"}

AirlineName(code) ==
    CASE code = "6E" -> "IndiGo"
      [] code = "AI" -> "Air India"
      [] code = "SG" -> "SpiceJet"
      [] code = "UK" -> "Vistara"
      [] code = "QP" -> "Akasa Air"
      [] code = "IX" -> "Air India Express"
      [] code = "9I" -> "Alliance Air"
      [] code = "I5" -> "AirAsia India"
      [] code = "G8" -> "Go First"

GetAirlineName(carrier_code) ==
    IF carrier_code \in AirlineTable THEN AirlineName(carrier_code) ELSE carrier_code

-----------------------------------------------------------------------------
(* Raw offers.                                                             *)
(*   total      : [ok, cents]; ok = FALSE when float() of the price raises *)
(*   itineraries: sequence of [segments, duration]                         *)
(*   segment    : [carrierCode, at, cabin]                                 *)
(*   at         : [ok, hasT, hhmm]; ok = FALSE when departure['at'] is not *)
(*                a string, so that slicing it raises                      *)

Seg(code, at, cabin) == [carrierCode |-> code, at |-> at, cabin |-> cabin]

AtTime(hhmm) == [ok |-> TRUE, hasT |-> TRUE, hhmm |-> hhmm]

AtEmpty == [ok |-> TRUE, hasT |-> FALSE, hhmm |-> ""]

AtNotAString == [ok |-> FALSE, hasT |-> FALSE, hhmm |-> ""]

Itin(segs, dur) == [segments |-> segs, duration |-> dur]

Offer(ok, cents, itins) == [total |-> [ok |-> ok, cents |-> cents], itineraries |-> itins]

\* 999.998 per person: a deal of price 999
OfferCheap ==
    Offer(TRUE, 499999,
          << Itin(<< Seg("6E", AtTime("06:30"), "ECONOMY") >>,
                  << "P", "T", "2", "H", "5", "M" >>) >>)

\* 1000.002 per person: over the budget, although it truncates to 1000
OfferOver ==
    Offer(TRUE, 500001,
          << Itin(<< Seg("AI", AtTime("09:15"), "ECONOMY") >>,
                  << "P", "T", "3", "H" >>) >>)

\* exactly 1000 per person, two segments, an unknown carrier, no 'T' in the
\* departure timestamp
OfferExact ==
    Offer(TRUE, 500000,
          << Itin(<< Seg("ZZ", AtEmpty, "BUSINESS"), Seg("AI", AtTime("12:00"), "BUSINESS") >>,
                  << "P", "T", "4", "5", "M" >>) >>)

\* the price is not a number: float() raises
OfferBadTotal ==
    Offer(FALSE, 0,
          << Itin(<< Seg("SG", AtTime("07:00"), "ECONOMY") >>,
                  << "P", "T", "1", "H" >>) >>)

\* within budget, no itineraries
OfferNoItineraries == Offer(TRUE, 150000, << >>)

\* within budget, the departure timestamp is not a string: slicing raises
OfferBadDeparture ==
    Offer(TRUE, 250000,
          << Itin(<< Seg("UK", AtNotAString, "ECONOMY") >>,
                  << "P", "T", "1", "H" >>) >>)

OfferPool == {OfferCheap, OfferOver, OfferExact, OfferBadTotal,
              OfferNoItineraries, OfferBadDeparture}

RECURSIVE SeqsUpTo(_, _)
SeqsUpTo(S, n) ==
    IF n = 0 THEN {<< >>}
    ELSE LET shorter == SeqsUpTo(S, n - 1)
         IN  shorter \cup {Append(s, x) : s \in {t \in shorter : Len(t) = n - 1}, x \in S}

-----------------------------------------------------------------------------
(* parse_amadeus_response *)

Raise == [kind |-> "raise"]

Skip == [kind |-> "skip"]

\* price_per_person <= Config.MAX_PRICE on the real-valued quotient
\* total_price / PASSENGERS, total_price = cents / 100
PriceQualifies_AfterTruncation(cents) == TruncDiv(cents, 100 * PASSENGERS) <= MAX_PRICE

PriceQualifies(cents) == cents <= MAX_PRICE * PASSENGERS * 100

DepartureHour(at) == IF at.hasT THEN at.hhmm ELSE "N/A"

\* the body of the loop for one offer: a deal, a skip (filtered out, or
\* `continue`), or a raised exception
NormalizeOffer(offer, date) ==
    IF ~offer.total.ok THEN Raise
    ELSE IF ~PriceQualifies(offer.total.cents) THEN Skip
    ELSE IF offer.itineraries = << >> THEN Skip
    ELSE LET first_itinerary == offer.itineraries[1]
             segments == first_itinerary.segments
         IN  IF segments = << >> THEN Skip
             ELSE LET first_segment == segments[1]
                      carrier_code == first_segment.carrierCode
                  IN  IF ~first_segment.at.ok THEN Raise
                      ELSE [kind |-> "deal",
                            deal |-> [date |-> date,
                                      price |-> TruncDiv(offer.total.cents, 100 * PASSENGERS),
                                      total_price |-> TruncDiv(offer.total.cents, 100),
                                      airline |-> GetAirlineName(carrier_code),
                                      carrier_code |-> carrier_code,
                                      duration |-> ParseDuration(first_itinerary.duration),
                                      stops |-> Len(segments) - 1,
                                      departure_time |-> DepartureHour(first_segment.at),
                                      cabin_class |-> first_segment.cabin,
                                      source |-> "Amadeus"]]

\* the try block encloses the whole for loop: the first offer that raises ends
\* the loop, and the deals built so far are returned
RECURSIVE ParseLoop(_, _, _, _)
ParseLoop(data, n, date, acc) ==
    IF n > Len(data) THEN acc
    ELSE LET r == NormalizeOffer(data[n], date)
         IN  CASE r.kind = "raise" -> acc
               [] r.kind = "skip" -> ParseLoop(data, n + 1, date, acc)
               [] r.kind = "deal" -> ParseLoop(data, n + 1, date, Append(acc, r.deal))

ParseAmadeusResponse(data, date) == ParseLoop(data, 1, date, << >>)

-----------------------------------------------------------------------------
(* search_flights_amadeus: what the provider can do for one date *)

Outcome(kind, data) == [kind |-> kind, data |-> data]

\* no_client: get_amadeus_client returned None; response_error: the request
\* raised ResponseError; exception: it raised anything else; ok: it returned data
FailureKinds == {"no_client", "response_error", "exception"}

Outcomes ==
    {Outcome(kd, << >>) : kd \in FailureKinds}
    \cup {Outcome("ok", data) : data \in SeqsUpTo(OfferPool, MaxOffers)}

NoResponse == Outcome("none", << >>)

Returned(ds) == [raised |-> FALSE, deals |-> ds]

Propagated == [raised |-> TRUE, deals |-> << >>]

SearchFlightsAmadeus_NoCatchAll(outcome, date) ==
    CASE outcome.kind = "no_client" -> Returned(<< >>)
      [] outcome.kind = "response_error" -> Returned(<< >>)
      [] outcome.kind = "exception" -> Propagated
      [] outcome.kind = "ok" -> Returned(ParseAmadeusResponse(outcome.data, date))

SearchFlightsAmadeus(outcome, date) ==
    CASE outcome.kind = "no_client" -> Returned(<< >>)
      [] outcome.kind = "response_error" -> Returned(<< >>)
      [] outcome.kind = "exception" -> Returned(<< >>)
      [] outcome.kind = "ok" -> Returned(ParseAmadeusResponse(outcome.data, date))

\* search_all_dates: `if i < len(dates): time.sleep(1)`
ShouldSleep_AfterEveryCall(idx, n) == idx <= n

ShouldSleep(idx, n) == idx < n

-----------------------------------------------------------------------------
(* format_results_message *)

\* list.sort(key=price) is stable: a deal goes after every deal already placed
\* whose price is not greater
SortInsert_Unstable(d, s) ==
    LET n == Cardinality({j \in 1..Len(s) : s[j].price < d.price})
    IN  SubSeq(s, 1, n) \o << d >> \o SubSeq(s, n + 1, Len(s))

SortInsert(d, s) ==
    LET n == Cardinality({j \in 1..Len(s) : s[j].price <= d.price})
    IN  SubSeq(s, 1, n) \o << d >> \o SubSeq(s, n + 1, Len(s))

\* the first n deals of s, sorted (rest is bound, so that the sorted prefix is
\* computed once)
RECURSIVE SortPrefix(_, _)
SortPrefix(s, n) ==
    IF n = 0 THEN << >>
    ELSE CHOOSE r \in {SortInsert(s[n], rest) : rest \in {SortPrefix(s, n - 1)}} : TRUE

SortByPrice(s) == SortPrefix(s, Len(s))

RECURSIVE SumPrices(_)
SumPrices(s) == IF s = << >> THEN 0 ELSE s[1].price + SumPrices(Tail(s))

AirlineCount(s, a) == Cardinality({j \in 1..Len(s) : s[j].airline = a})

\* max(airline_counts.items(), key=count): the dict keeps insertion order and
\* max returns the first maximal item
BestAirline(s) ==
    LET airlines == {s[j].airline : j \in 1..Len(s)}
        count == [a \in airlines |-> AirlineCount(s, a)]
        most == CHOOSE c \in {count[a] : a \in airlines} : \A a \in airlines : count[a] <= c
        first == CHOOSE j \in 1..Len(s) :
                    /\ count[s[j].airline] = most
                    /\ \A m \in 1..(j - 1) : count[s[m].airline] < most
    IN  [airline |-> s[first].airline, flights |-> most]

NoDealsMessage ==
    [kind |-> "no_deals", total |-> 0, top |-> << >>, more_note |-> FALSE, more |-> 0,
     cheapest |-> 0, average |-> 0, best_airline |-> [airline |-> "", flights |-> 0],
     nonstop |-> 0]

\* the report's content, for a list already sorted
DealsMessage(sorted) ==
    [kind |-> "deals",
     total |-> Len(sorted),
     top |-> SubSeq(sorted, 1, Min(TOP_N, Len(sorted))),
     more_note |-> Len(sorted) > TOP_N,
     more |-> IF Len(sorted) > TOP_N THEN Len(sorted) - TOP_N ELSE 0,
     cheapest |-> sorted[1].price,
     average |-> TruncDiv(SumPrices(sorted), Len(sorted)),
     best_airline |-> BestAirline(sorted),
     nonstop |-> Cardinality({j \in 1..Len(sorted) : sorted[j].stops = 0})]

\* (sorted is bound, so that the sort is computed once)
FormatResultsMessage(ds) ==
    IF ds = << >> THEN NoDealsMessage
    ELSE CHOOSE m \in {DealsMessage(sorted) : sorted \in {SortByPrice(ds)}} : TRUE

-----------------------------------------------------------------------------
(* send_long_message / send_telegram_message: a text is its line lengths *)

RECURSIVE SumSeq(_)
SumSeq(s) == IF s = << >> THEN 0 ELSE s[1] + SumSeq(Tail(s))

\* len(message): the lines and the newlines between them
MessageLen(ls) == SumSeq(ls) + Len(ls) - 1

\* the for loop over message.split('\n'); cur is len(current_part)
RECURSIVE SplitLoop(_, _, _, _)
SplitLoop(ls, n, ps, cur) ==
    IF n > Len(ls) THEN (IF cur > 0 THEN Append(ps, cur) ELSE ps)
    ELSE IF cur + ls[n] + 1 > max_length
         THEN SplitLoop(ls, n + 1, Append(ps, cur), ls[n] + 1)
         ELSE SplitLoop(ls, n + 1, ps, cur + ls[n] + 1)

SplitParts(ls) == SplitLoop(ls, 1, << >>, 0)

\* what the transport can do with one request
TransportOutcomes == {"status_200", "status_other", "exception"}

SendTelegramMessage(outcome) == outcome = "status_200"

-----------------------------------------------------------------------------
(* Inputs *)

AllCredValues == UNION {CredValues(f) : f \in CredFields}

Configs == {c \in [CredFields -> AllCredValues] : \A f \in CredFields : c[f] \in CredValues(f)}

RealConfig == [f \in CredFields |-> "secret-value"]

\* renderings of a report: it fits one message, or it needs two chunks (the
\* texts of a report's lines come from the provider's data and the configuration)
RenderedTexts == {<< 1999 >>, << 3999, 1999 >>}

LineLengths == {0, 1999, 3999, 4000, 4097}

DurationChars == {"P", "T", "H", "M", "2", "x"}

FormatPrices == {300, 500, 800}

\* the k-th deal was found on day k
DealOfPrice(price, day) ==
    [date |-> day, price |-> price, total_price |-> price * PASSENGERS,
     airline |-> GetAirlineName(IF price = 300 THEN "6E" ELSE IF price = 500 THEN "AI" ELSE "ZZ"),
     carrier_code |-> IF price = 300 THEN "6E" ELSE IF price = 500 THEN "AI" ELSE "ZZ",
     duration |-> HM(2, 5), stops |-> IF price = 300 THEN 0 ELSE 1,
     departure_time |-> "06:30", cabin_class |-> "ECONOMY", source |-> "Amadeus"]

\* the subsets of 1..n of at most k elements
RECURSIVE SmallSubsets(_, _)
SmallSubsets(n, k) ==
    IF n = 0 \/ k = 0 THEN {{}}
    ELSE SmallSubsets(n - 1, k) \cup {Q \cup {n} : Q \in SmallSubsets(n - 1, k - 1)}

\* n deals, all but those found on the days of P of price b
FormatInput(n, P, a, b) == [m \in 1..n |-> DealOfPrice(IF m \in P THEN a ELSE b, m)]

UnsetMessage == [NoDealsMessage EXCEPT !.kind = "unset"]

-----------------------------------------------------------------------------
(* Initial states *)

Idle ==
    /\ errors = << >>
    /\ dates = << >>
    /\ i = 0
    /\ response = NoResponse
    /\ deals = << >>
    /\ inflight = 0
    /\ trace = << >>
    /\ found = << >>
    /\ message = UnsetMessage
    /\ parts = << >>
    /\ part_i = 0
    /\ sent = << >>
    /\ success = FALSE
    /\ duration = NA

\* a run of main()
Init ==
    /\ pc = "start"
    /\ cfg \in Configs
    /\ date_start \in 1..MaxDay
    /\ date_end \in 1..MaxDay
    /\ all_deals = << >>
    /\ lines = << >>
    /\ duration_str = << >>
    /\ Idle

\* a call of format_results_message(deals)
InitFormat ==
    /\ pc = "results"
    /\ cfg = RealConfig
    /\ date_start = 1
    /\ date_end = 1
    /\ \E n \in 0..MaxDeals, a \in FormatPrices, b \in FormatPrices :
          \E P \in SmallSubsets(n, MaxMinority) : all_deals = FormatInput(n, P, a, b)
    /\ lines = << >>
    /\ duration_str = << >>
    /\ Idle

\* a call of send_long_message(message)
InitSend ==
    /\ pc = "send"
    /\ cfg = RealConfig
    /\ date_start = 1
    /\ date_end = 1
    /\ all_deals = << >>
    /\ lines \in SeqsUpTo(LineLengths, MaxLines) \ {<< >>}
    /\ duration_str = << >>
    /\ Idle

\* a call of parse_duration(duration_str)
InitDuration ==
    /\ pc = "duration"
    /\ cfg = RealConfig
    /\ date_start = 1
    /\ date_end = 1
    /\ all_deals = << >>
    /\ lines = << >>
    /\ duration_str \in SeqsUpTo(DurationChars, MaxLen)
    /\ Idle

-----------------------------------------------------------------------------
(* main *)

ValidateConfig ==
    /\ pc = "start"
    /\ errors' = Validate(cfg)
    /\ pc' = IF Validate(cfg) # << >> THEN "done" ELSE "dates"
    /\ UNCHANGED << cfg, date_start, date_end, dates, i, response, deals, all_deals,
                    inflight, trace, found, message, lines, parts, part_i, sent,
                    success, duration_str, duration >>

(* search_all_dates *)

\* an entry of the history: a search call, its return (with what the provider
\* did), or a delay
Event(ev, date, kind) == [ev |-> ev, date |-> date, kind |-> kind]

GenerateDates ==
    /\ pc = "dates"
    /\ dates' = GenerateDatesInRange(date_start, date_end)
    /\ all_deals' = << >>
    /\ i' = 1
    /\ pc' = "loop"
    /\ UNCHANGED << cfg, errors, date_start, date_end, response, deals, inflight,
                    trace, found, message, lines, parts, part_i, sent, success,
                    duration_str, duration >>

SearchCall ==
    /\ pc = "loop"
    /\ i <= Len(dates)
    /\ inflight' = inflight + 1
    /\ trace' = Append(trace, Event("call", dates[i], "-"))
    /\ response' = NoResponse
    /\ pc' = "searching"
    /\ UNCHANGED << cfg, errors, date_start, date_end, dates, i, deals, all_deals,
                    found, message, lines, parts, part_i, sent, success,
                    duration_str, duration >>

SearchReturn ==
    /\ pc = "searching"
    /\ \E o \in Outcomes :
          LET r == SearchFlightsAmadeus(o, dates[i])
          IN  /\ response' = o
              /\ deals' = IF r.raised THEN deals ELSE r.deals
              /\ pc' = IF r.raised THEN "aborted" ELSE "extend"
              /\ trace' = Append(trace, Event("return", dates[i], o.kind))
    /\ inflight' = inflight - 1
    /\ UNCHANGED << cfg, errors, date_start, date_end, dates, i, all_deals,
                    found, message, lines, parts, part_i, sent, success,
                    duration_str, duration >>

ExtendDeals ==
    /\ pc = "extend"
    /\ all_deals' = all_deals \o deals
    /\ pc' = IF ShouldSleep(i, Len(dates)) THEN "sleep" ELSE "loop"
    /\ i' = IF ShouldSleep(i, Len(dates)) THEN i ELSE i + 1
    /\ response' = NoResponse
    /\ UNCHANGED << cfg, errors, date_start, date_end, dates, deals,
                    inflight, trace, found, message, lines, parts, part_i, sent,
                    success, duration_str, duration >>

Sleep ==
    /\ pc = "sleep"
    /\ trace' = Append(trace, Event("delay", dates[i], "-"))
    /\ i' = i + 1
    /\ pc' = "loop"
    /\ UNCHANGED << cfg, errors, date_start, date_end, dates, response, deals,
                    all_deals, inflight, found, message, lines, parts, part_i, sent,
                    success, duration_str, duration >>

LoopExit ==
    /\ pc = "loop"
    /\ i > Len(dates)
    /\ deals' = << >>
    /\ pc' = "results"
    /\ UNCHANGED << cfg, errors, date_start, date_end, dates, i, response,
                    all_deals, inflight, trace, found, message, lines, parts, part_i,
                    sent, success, duration_str, duration >>

(* format_results_message: deals.sort sorts the caller's list in place *)

FormatReport ==
    /\ pc = "results"
    /\ found' = all_deals
    /\ message' = FormatResultsMessage(all_deals)
    /\ all_deals' = SortByPrice(all_deals)
    /\ pc' = "formatted"
    /\ UNCHANGED << cfg, errors, date_start, date_end, dates, i, response, deals,
                    inflight, trace, lines, parts, part_i, sent, success,
                    duration_str, duration >>

(* send_long_message *)

SendStart ==
    /\ pc = "formatted"
    /\ \E ls \in RenderedTexts : lines' = ls
    /\ pc' = "send"
    /\ UNCHANGED << cfg, errors, date_start, date_end, dates, i, response, deals,
                    all_deals, inflight, trace, found, message, parts, part_i, sent,
                    success, duration_str, duration >>

SendDecide ==
    /\ pc = "send"
    /\ IF MessageLen(lines) <= max_length
       THEN /\ pc' = "single"
            /\ UNCHANGED << parts, part_i >>
       ELSE /\ parts' = SplitParts(lines)
            /\ part_i' = 1
            /\ pc' = "chunks"
    /\ UNCHANGED << cfg, errors, date_start, date_end, dates, i, response, deals,
                    all_deals, inflight, trace, found, message, lines, sent, success,
                    duration_str, duration >>

SendSingle ==
    /\ pc = "single"
    /\ \E t \in TransportOutcomes :
          /\ sent' = Append(sent, [len |-> MessageLen(lines), ok |-> SendTelegramMessage(t)])
          /\ success' = SendTelegramMessage(t)
    /\ pc' = "report"
    /\ UNCHANGED << cfg, errors, date_start, date_end, dates, i, response, deals,
                    all_deals, inflight, trace, found, message, lines, parts, part_i,
                    duration_str, duration >>

SendChunk ==
    /\ pc = "chunks"
    /\ part_i <= Len(parts)
    /\ \E t \in TransportOutcomes :
          sent' = Append(sent, [len |-> parts[part_i], ok |-> SendTelegramMessage(t)])
    /\ part_i' = part_i + 1
    /\ UNCHANGED << pc, cfg, errors, date_start, date_end, dates, i, response, deals,
                    all_deals, inflight, trace, found, message, lines, parts, success,
                    duration_str, duration >>

ChunksDone ==
    /\ pc = "chunks"
    /\ part_i > Len(parts)
    /\ success' = TRUE
    /\ pc' = "report"
    /\ UNCHANGED << cfg, errors, date_start, date_end, dates, i, response, deals,
                    all_deals, inflight, trace, found, message, lines, parts, part_i,
                    sent, duration_str, duration >>

Finish ==
    /\ pc = "report"
    /\ pc' = "done"
    /\ UNCHANGED << cfg, errors, date_start, date_end, dates, i, response, deals,
                    all_deals, inflight, trace, found, message, lines, parts, part_i,
                    sent, success, duration_str, duration >>

(* parse_duration *)

ParseDurationCall ==
    /\ pc = "duration"
    /\ duration' = ParseDuration(duration_str)
    /\ pc' = "duration_done"
    /\ UNCHANGED << cfg, errors, date_start, date_end, dates, i, response, deals,
                    all_deals, inflight, trace, found, message, lines, parts, part_i,
                    sent, success, duration_str >>

-----------------------------------------------------------------------------
(* Specifications *)

Next ==
    \/ ValidateConfig
    \/ GenerateDates
    \/ SearchCall
    \/ SearchReturn
    \/ ExtendDeals
    \/ Sleep
    \/ LoopExit
    \/ FormatReport
    \/ SendStart
    \/ SendDecide
    \/ SendSingle
    \/ SendChunk
    \/ ChunksDone
    \/ Finish

NextFormat == FormatReport

NextSend ==
    \/ SendDecide
    \/ SendSingle
    \/ SendChunk
    \/ ChunksDone

NextDuration == ParseDurationCall

Spec == Init /\ [][Next]_vars

\* main is one sequential flow: a step that can be taken is taken
LiveSpec == Init /\ [][Next]_vars /\ WF_vars(Next)

SpecFormat == InitFormat /\ [][NextFormat]_vars

SpecSend == InitSend /\ [][NextSend]_vars

SpecDuration == InitDuration /\ [][NextDuration]_vars

-----------------------------------------------------------------------------
(* Properties *)

IsCall(e) == e.ev = "call"

IsDelay(e) == e.ev = "delay"

Calls == SelectSeq(trace, IsCall)

Delays == SelectSeq(trace, IsDelay)

IsReturn(e) == e.ev = "return"

Returns == SelectSeq(trace, IsReturn)

IsCallOrDelay(e) == e.ev # "return"

Schedule == SelectSeq(trace, IsCallOrDelay)

\* the number of days of the inclusive range date_start..date_end
RangeDays == IF date_end >= date_start THEN date_end - date_start + 1 ELSE 0

SearchPcs == {"loop", "searching", "extend", "sleep"}

\* search_all_dates has returned
SearchFinished ==
    \/ pc \in {"results", "formatted", "send", "single", "chunks", "report"}
    \/ pc = "done" /\ errors = << >>

IsPrefix(s, t) == Len(s) <= Len(t) /\ SubSeq(t, 1, Len(s)) = s

CredOK(f) == cfg[f] # NONE /\ cfg[f] # "" /\ cfg[f] # Placeholder(f)

\* C1: in parse_amadeus_response, when extracting the fields of offer k raises,
\* only offer k is skipped: every qualifying offer after k in the same batch
\* still yields its Deal in the returned list.
C1_MalformedOfferSkippedAlone ==
    (pc = "extend" /\ response.kind = "ok") =>
        \A n \in 1..Len(response.data), m \in 1..Len(response.data) :
            (/\ n < m
             /\ NormalizeOffer(response.data[n], dates[i]).kind = "raise"
             /\ NormalizeOffer(response.data[m], dates[i]).kind = "deal")
            => \E j \in 1..Len(deals) : deals[j] = NormalizeOffer(response.data[m], dates[i]).deal

C2_StateInv ==
    /\ Len(Calls) <= RangeDays
    /\ \A n \in 1..Len(Calls) : Calls[n].date = date_start + n - 1
    /\ SearchFinished => Len(Calls) = RangeDays
    /\ (pc = "extend" /\ response.kind \in FailureKinds) => deals = << >>

C2_Step ==
    /\ pc \in SearchPcs => IsPrefix(all_deals, all_deals')
    /\ (pc = "extend" /\ response.kind \in FailureKinds) => all_deals' = all_deals

\* C2: whatever dates fail at the provider (no client, ResponseError, any other
\* exception), search_all_dates searches every date of the inclusive range
\* exactly once, in ascending order, without retry; a failed date contributes
\* no deal, and the deals accumulated from earlier dates are kept.
C2_EveryDateSearchedOnce == [](C2_StateInv) /\ [][C2_Step]_vars

\* a two-day search has finished: the first date failed, the second date was
\* searched all the same and gave the deals of the result
C2_Witness ==
    /\ pc = "results"
    /\ Len(Calls) = 2
    /\ Len(Returns) = 2
    /\ Returns[1].kind = "response_error"
    /\ Returns[2].kind = "ok"
    /\ all_deals # << >>

\* C3: when send_long_message splits a message of more than 4000 characters,
\* every chunk handed to send_telegram_message has at most 4000 characters,
\* also when the message has a line of more than 4000 characters.
C3_ChunksWithinLimit ==
    parts # << >> => \A n \in 1..Len(sent) : sent[n].len <= max_length

\* C4: send_long_message returns success only if every chunk's delivery was
\* accepted, on the single-message path and on the multi-chunk path.
C4_SuccessOnlyIfAllAccepted ==
    (pc = "report" /\ success) => \A n \in 1..Len(sent) : sent[n].ok

\* C5: every Deal in the accumulator has price <= MAX_PRICE; a Deal is built
\* only from an offer whose real-valued price per person (total / PASSENGERS)
\* is at most MAX_PRICE, and its stored price and total are those values
\* truncated to integers.
C5_DealsWithinBudget ==
    /\ \A n \in 1..Len(all_deals) : all_deals[n].price <= MAX_PRICE
    /\ (pc = "extend" /\ response.kind = "ok") =>
          \A m \in 1..Len(deals) : \E n \in 1..Len(response.data) :
              LET cents == response.data[n].total.cents
              IN  /\ response.data[n].total.ok
                  /\ cents >= 0
                  /\ cents <= MAX_PRICE * PASSENGERS * 100
                  /\ deals[m].total_price * 100 <= cents
                  /\ cents < (deals[m].total_price + 1) * 100
                  /\ deals[m].price * PASSENGERS * 100 <= cents
                  /\ cents < (deals[m].price + 1) * PASSENGERS * 100

\* a batch with an offer just over the budget and an offer exactly at it gave
\* one deal, of price MAX_PRICE
C5_Witness ==
    /\ pc = "extend"
    /\ response.kind = "ok"
    /\ response.data = << OfferOver, OfferExact >>
    /\ Len(deals) = 1
    /\ deals[1].price = MAX_PRICE

\* C6: if one of the four credential fields is missing, empty or its
\* placeholder, main ends without a search call and without a delivery call; a
\* search call happens only after Config.validate returned no error.
C6_NoCallWithoutCredentials ==
    /\ (\E f \in CredFields : ~CredOK(f)) =>
          /\ trace = << >>
          /\ sent = << >>
          /\ inflight = 0
          /\ pc \in {"start", "done"}
    /\ trace # << >> => (errors = << >> /\ pc # "start")

\* main has ended on a configuration whose only fault is a placeholder secret
C6_Witness ==
    /\ pc = "done"
    /\ cfg["AMADEUS_API_SECRET"] = Placeholder("AMADEUS_API_SECRET")
    /\ \A f \in CredFields \ {"AMADEUS_API_SECRET"} : CredOK(f)
    /\ errors = << "AMADEUS_API_SECRET" >>
    /\ trace = << >>
    /\ sent = << >>

RunCompleted ==
    /\ pc = "done"
    /\ message.kind # "unset"
    /\ message.total = Len(all_deals)
    /\ sent # << >>

\* C7: once validation has passed, the run is never aborted: whatever the
\* provider failures, malformed offers and delivery failures, main eventually
\* formats a report from the deals collected, attempts delivery and ends.
C7_RunAlwaysCompletes == [](pc # "aborted") /\ ((pc = "dates") ~> RunCompleted)

\* a run has ended normally although a search raised, a date's deals were
\* found all the same and a delivery was refused
C7_Witness ==
    /\ RunCompleted
    /\ \E n \in 1..Len(Returns) : Returns[n].kind = "exception"
    /\ message.kind = "deals"
    /\ \E n \in 1..Len(sent) : ~sent[n].ok

DigitStrings == SeqsUpTo(DurationChars \cap Digits, MaxLen)

\* the token PT[{h}H][{m}M]; an empty digit string is a missing component
DurationToken(hd, md) ==
    << "P", "T" >> \o (IF hd = << >> THEN << >> ELSE Append(hd, "H"))
                  \o (IF md = << >> THEN << >> ELSE Append(md, "M"))

\* C8: parse_duration never raises; for a token PT[{h}H][{m}M] it returns
\* "{h}h {m}m" with 0 for a missing component, and for every other input
\* (empty string, garbage) it returns "N/A".
C8_DurationOrNA ==
    pc = "duration_done" =>
        IF \E hd \in DigitStrings, md \in DigitStrings : duration_str = DurationToken(hd, md)
        THEN \E hd \in DigitStrings, md \in DigitStrings :
                /\ duration_str = DurationToken(hd, md)
                /\ duration = HM(IntValue(hd), IntValue(md))
        ELSE duration = NA

\* the number of deals that a stable sort by price puts before found[n]
Rank(n) ==
    Cardinality({m \in 1..Len(found) :
                    \/ found[m].price < found[n].price
                    \/ found[m].price = found[n].price /\ m < n})

\* C9: for n > 0 deals, format_results_message lists exactly min(n, 15) deals,
\* the first min(n, 15) of the deals sorted by ascending price with equal
\* prices in discovery order, and it announces n - 15 more deals exactly when
\* n > 15.
C9_TopFifteen ==
    (pc = "formatted" /\ found # << >>) =>
        /\ Len(message.top) = Min(Len(found), 15)
        /\ \A n \in 1..Len(found) : Rank(n) < 15 => message.top[Rank(n) + 1] = found[n]
        /\ message.more_note = (Len(found) > 15)
        /\ Len(found) > 15 => message.more = Len(found) - 15

\* more than 15 deals, the sort moved some, and the last listed deal has the
\* price of the first deal left out
C9_Witness ==
    /\ pc = "formatted"
    /\ Len(found) > 15
    /\ found # all_deals
    /\ message.top[15].price = all_deals[16].price
    /\ message.more_note

\* C10: in search_all_dates a delay follows every search call but the last:
\* one delay between two consecutive calls, none after the final call, at most
\* one call in flight; n >= 1 dates give n calls and n - 1 delays.
C10_DelayBetweenCalls ==
    /\ inflight \in {0, 1}
    /\ inflight = 1 <=> pc = "searching"
    /\ \A n \in 1..(Len(trace) - 1) : trace[n].ev = "call" => trace[n + 1].ev = "return"
    /\ Schedule # << >> => Schedule[1].ev = "call"
    /\ \A n \in 1..(Len(Schedule) - 1) : Schedule[n].ev # Schedule[n + 1].ev
    /\ (SearchFinished /\ RangeDays >= 1) =>
          /\ Len(Calls) = RangeDays
          /\ Len(Delays) = RangeDays - 1
          /\ Schedule[Len(Schedule)].ev = "call"

\* a two-day search has finished: call, delay, call
C10_Witness ==
    /\ pc = "results"
    /\ Len(Schedule) = 3
    /\ Len(Calls) = 2
    /\ Len(Delays) = 1

=============================================================================
